---- MODULE Spec2Model ----
(***************************************************************************)
(* The workflow editor (WorkflowEditor page, NodeConfigPanel and the nodes *)
(* sidebar) as a state machine: the React state of the page and of the     *)
(* configuration panel, one action per event handler, and the pure         *)
(* mappings of loadWorkflow (decode + input repair) and handleSave         *)
(* (validation + encode) as operators.                                     *)
(***************************************************************************)
EXTENDS Integers, Sequences, FiniteSets, TLC

(***************************************************************************)
(* Bounds of the model.                                                    *)
(***************************************************************************)
MaxNodes == 2
MaxEdges == 2

\* credentialsApi.list requests are counted up to this many.
MaxListRequests == 2

\* Values Date.now() can return during a session (non-decreasing reads).
Clock == {0, 1}

(***************************************************************************)
(* JavaScript values that occur in node records.  Every value has the same *)
(* shape so that any two can be compared.                                  *)
(***************************************************************************)
Str(s) == [t |-> "str", s |-> s, n |-> 0]
Num(n) == [t |-> "num", s |-> "", n |-> n]
NaN == [t |-> "nan", s |-> "", n |-> 0]
Undef == [t |-> "undef", s |-> "", n |-> 0]

\* JavaScript truthiness: '' , 0, NaN and undefined are falsy.
Truthy(v) == \/ v.t = "str" /\ v.s # ""
             \/ v.t = "num" /\ v.n # 0

(***************************************************************************)
(* Input payloads: a JavaScript object over the field names the program    *)
(* uses; a key the object does not have reads as undefined.                *)
(***************************************************************************)
Fields == {"type", "credentialId", "chat_id", "message_text", "model_name", "prompt"}

EmptyObj == [f \in Fields |-> Undef]

\* data.inputs is either missing (undefined) or an object.
NoInputs == [present |-> FALSE, m |-> EmptyObj]
Obj(m) == [present |-> TRUE, m |-> m]

\* node.data.inputs || {}
InputsOrEmpty(inputs) == IF inputs.present THEN inputs.m ELSE EmptyObj

\* Variant: the object holds the edited field only.
WithOnly(obj, key, value) == [EmptyObj EXCEPT ![key] = value]

\* { ...obj, [key]: value }
With(obj, key, value) == [obj EXCEPT ![key] = value]

(***************************************************************************)
(* The node types of the sidebar and the tables of the editor.             *)
(***************************************************************************)
nodeTypes == <<"manual_trigger", "webhook_trigger", "telegram", "llm", "langgraph">>

Types == {nodeTypes[i] : i \in 1..Len(nodeTypes)}

IsTriggerType(v) == v = Str("manual_trigger") \/ v = Str("webhook_trigger")

nodesRequiringCredentials == {Str("telegram"), Str("llm"), Str("langgraph")}

getNodeLabel(nodeType) ==
    CASE nodeType = "manual_trigger" -> "Manual Trigger"
      [] nodeType = "webhook_trigger" -> "Webhook Trigger"
      [] nodeType = "telegram" -> "Telegram Message"
      [] nodeType = "llm" -> "LLM Prompt"
      [] nodeType = "langgraph" -> "LangGraph Agent"
      [] OTHER -> nodeType

getDefaultInputs(nodeType) ==
    CASE nodeType = "telegram" ->
           [EmptyObj EXCEPT !["type"] = Str("telegram"), !["credentialId"] = Str(""),
                            !["chat_id"] = Str(""), !["message_text"] = Str("")]
      [] nodeType \in {"llm", "langgraph"} ->
           [EmptyObj EXCEPT !["type"] = Str(nodeType), !["credentialId"] = Str(""),
                            !["model_name"] = Str("gemini-1.5-flash"),
                            !["prompt"] = Str("")]
      [] nodeType \in {"manual_trigger", "webhook_trigger"} ->
           [EmptyObj EXCEPT !["type"] = Str(nodeType)]
      [] OTHER -> EmptyObj

\* Canvas positions: the sidebar adds every node at (300, 200); a drag moves
\* it elsewhere.
SidebarPosition == [x |-> 300, y |-> 200]
Positions == {SidebarPosition, [x |-> 0, y |-> 0]}

\* `${nodeType}-${Date.now()}`
NodeId(nodeType, ms) == <<nodeType, ms>>

NoId == <<"", -1>>

(***************************************************************************)
(* State.                                                                  *)
(***************************************************************************)
VARIABLES
    nodes,          \* useNodesState: the node list, in insertion order
    edges,          \* useEdgesState: the edge list
    selectedNode,   \* the clicked node the panel shows, or NoSelection
    formData,       \* NodeConfigPanel's copy of the selected node's inputs
    workflow,       \* TRUE once the workflow document is loaded (non-null)
    isLoading,
    isSaving,
    isExecuting,
    page,           \* "editor" while the page is mounted, "list" after navigate
    now,            \* the last value Date.now() returned
    store,          \* json_content of the document the backend holds
    loadPending,    \* the workflowsApi.get request is in flight
    saveReply,      \* the reply of the update request in flight, "none" when idle
    toast,          \* the notification raised by the last handler
    sent,           \* the update request issued by the last handler
    last,           \* the last handler that ran, with its argument
    listRequests    \* credentialsApi.list requests issued since the page mounted

vars == <<nodes, edges, selectedNode, formData, workflow, isLoading, isSaving,
          isExecuting, page, now, store, loadPending, saveReply, toast, sent, last,
          listRequests>>

\* What the canvas, sidebar and panel handlers never touch.
session == <<workflow, isLoading, isSaving, isExecuting, page, store, loadPending,
             saveReply, listRequests>>

\* The same without the panel's request count.
pageState == <<workflow, isLoading, isSaving, isExecuting, page, store, loadPending,
               saveReply>>

NoSelection == [open |-> FALSE, id |-> NoId, label |-> "", nodeType |-> Undef]

NoToast == [title |-> "", label |-> ""]
NoRequest == [made |-> FALSE, startNodeId |-> NoId, nodes |-> <<>>, edges |-> <<>>]
NoContent == [present |-> FALSE, startNodeId |-> NoId, nodes |-> <<>>, edges |-> <<>>]

NoPosition == [x |-> -1, y |-> -1]

\* removed: the number of edges the handler dropped; inputs and position:
\* the payload and the position the handler was called with, when it takes
\* one.
Event(op, id, removed) ==
    [op |-> op, id |-> id, removed |-> removed, inputs |-> NoInputs,
     position |-> NoPosition]

NodeIds == {nodes[i].id : i \in 1..Len(nodes)}

\* The page shows the canvas, the sidebar and the buttons.
EditorShown == page = "editor" /\ ~isLoading /\ workflow

Quiet == /\ toast' = NoToast
         /\ sent' = NoRequest

(***************************************************************************)
(* Canvas and sidebar handlers.                                            *)
(***************************************************************************)
\* Variant: the new node is always placed at the sidebar's position.
NewNodeAtSidebar(nodeType, position, ms) ==
    [id |-> NodeId(nodeType, ms),
     type |-> Str("default"),
     position |-> SidebarPosition,
     data |-> [label |-> getNodeLabel(nodeType),
               nodeType |-> Str(nodeType),
               inputs |-> Obj(getDefaultInputs(nodeType))]]

NewNode(nodeType, position, ms) ==
    [id |-> NodeId(nodeType, ms),
     type |-> Str("default"),
     position |-> position,
     data |-> [label |-> getNodeLabel(nodeType),
               nodeType |-> Str(nodeType),
               inputs |-> Obj(getDefaultInputs(nodeType))]]

HandleAddNode(nodeType, position, ms) ==
    /\ EditorShown
    /\ Len(nodes) < MaxNodes
    /\ ms >= now
    /\ now' = ms
    /\ nodes' = Append(nodes, NewNode(nodeType, position, ms))
    /\ last' = [Event("handleAddNode", NodeId(nodeType, ms), 0)
                    EXCEPT !.position = position]
    /\ Quiet
    /\ UNCHANGED <<edges, selectedNode, formData, session>>

\* reactflow's addEdge: no edge without both endpoints, no second edge for
\* the same connection, otherwise the edge is appended.
getEdgeId(source, target) == <<source, target>>

connectionExists(edge, eds) ==
    \E i \in 1..Len(eds) : eds[i].source = edge.source /\ eds[i].target = edge.target

addEdge(source, target, eds) ==
    LET edge == [id |-> getEdgeId(source, target), source |-> source, target |-> target]
    IN  IF source = NoId \/ target = NoId THEN eds
        ELSE IF connectionExists(edge, eds) THEN eds
        ELSE Append(eds, edge)

OnConnect(source, target) ==
    /\ EditorShown
    /\ Len(edges) < MaxEdges
    /\ edges' = addEdge(source, target, edges)
    /\ last' = Event("onConnect", source, 0)
    /\ Quiet
    /\ UNCHANGED <<nodes, selectedNode, formData, now, session>>

\* onNodesChange with a position change (a drag of node i).
MoveNode(i, position) ==
    /\ EditorShown
    /\ i \in 1..Len(nodes)
    /\ nodes' = [nodes EXCEPT ![i].position = position]
    /\ last' = Event("onNodesChange", nodes[i].id, 0)
    /\ Quiet
    /\ UNCHANGED <<edges, selectedNode, formData, now, session>>

\* The panel mounts (selectedNode turns non-null): its mount effect calls
\* loadCredentials, which requests credentialsApi.list.
MountPanel == IF listRequests < MaxListRequests THEN listRequests + 1 ELSE listRequests

\* Variant: a click on the node the panel already shows closes the panel.
OnNodeClickToggles(i) ==
    /\ EditorShown
    /\ i \in 1..Len(nodes)
    /\ selectedNode' = IF selectedNode.open /\ selectedNode.id = nodes[i].id
                        THEN NoSelection
                        ELSE [open |-> TRUE, id |-> nodes[i].id,
                              label |-> nodes[i].data.label,
                              nodeType |-> nodes[i].data.nodeType]
    /\ formData' = InputsOrEmpty(nodes[i].data.inputs)
    /\ last' = Event("onNodeClick", nodes[i].id, 0)
    /\ listRequests' = IF selectedNode.open THEN listRequests ELSE MountPanel
    /\ Quiet
    /\ UNCHANGED <<nodes, edges, now, pageState>>

OnNodeClick(i) ==
    /\ EditorShown
    /\ i \in 1..Len(nodes)
    /\ selectedNode' = [open |-> TRUE, id |-> nodes[i].id,
                        label |-> nodes[i].data.label,
                        nodeType |-> nodes[i].data.nodeType]
    /\ formData' = InputsOrEmpty(nodes[i].data.inputs)
    /\ last' = Event("onNodeClick", nodes[i].id, 0)
    /\ listRequests' = IF selectedNode.open THEN listRequests ELSE MountPanel
    /\ Quiet
    /\ UNCHANGED <<nodes, edges, now, pageState>>

\* onPaneClick and the panel's onClose both run setSelectedNode(null).
ClearSelection(op) ==
    /\ selectedNode' = NoSelection
    /\ formData' = EmptyObj
    /\ last' = Event(op, NoId, 0)
    /\ Quiet
    /\ UNCHANGED <<nodes, edges, now, session>>

OnPaneClick ==
    /\ EditorShown
    /\ ClearSelection("onPaneClick")

OnClose ==
    /\ EditorShown
    /\ selectedNode.open
    /\ ClearSelection("onClose")

\* Variant: the filter stops at the first node it drops, so the rest is lost.
RemoveNodeAndRest(nds, nodeId) ==
    LET hits == {i \in 1..Len(nds) : nds[i].id = nodeId}
    IN  IF hits = {} THEN nds
        ELSE SubSeq(nds, 1, (CHOOSE i \in hits : \A j \in hits : i <= j) - 1)

RemoveNode(nds, nodeId) == SelectSeq(nds, LAMBDA node : node.id # nodeId)

\* Variant: only the outgoing edges of the node are dropped.
RemoveOutgoingOnly(eds, nodeId) == SelectSeq(eds, LAMBDA edge : edge.source # nodeId)

RemoveEdgesOf(eds, nodeId) ==
    SelectSeq(eds, LAMBDA edge : edge.source # nodeId /\ edge.target # nodeId)

\* The panel's Delete button: onDeleteNode(node.id) of the selected node.
HandleDeleteNode(nodeId) ==
    /\ EditorShown
    /\ selectedNode.open
    /\ nodeId = selectedNode.id
    /\ nodes' = RemoveNode(nodes, nodeId)
    /\ edges' = RemoveEdgesOf(edges, nodeId)
    /\ selectedNode' = NoSelection
    /\ formData' = EmptyObj
    /\ last' = Event("handleDeleteNode", nodeId,
                      Len(edges) - Len(RemoveEdgesOf(edges, nodeId)))
    /\ Quiet
    /\ UNCHANGED <<now, session>>

\* The delete key on the canvas while the clicked node is still the selected
\* element of the canvas: reactflow hands a remove change for the node to
\* onNodesChange and one for each connected edge to onEdgesChange.  No
\* handler of the page runs, so selectedNode stays.
OnNodesDelete ==
    /\ EditorShown
    /\ selectedNode.open
    /\ selectedNode.id \in NodeIds
    /\ nodes' = RemoveNode(nodes, selectedNode.id)
    /\ edges' = RemoveEdgesOf(edges, selectedNode.id)
    /\ last' = Event("onNodesDelete", selectedNode.id,
                      Len(edges) - Len(RemoveEdgesOf(edges, selectedNode.id)))
    /\ Quiet
    /\ UNCHANGED <<selectedNode, formData, now, session>>

(***************************************************************************)
(* The configuration panel.                                                *)
(***************************************************************************)
\* The credentials credentialsApi.list() returns: ids are strings.
CredentialList ==
    { [id |-> <<"7">>, type |-> "telegram"],
      [id |-> <<"0">>, type |-> "telegram_bot"],
      [id |-> <<"k", "9">>, type |-> "openai"],
      [id |-> <<"1", "2">>, type |-> "gemini"],
      [id |-> <<"3">>, type |-> "aws"] }

getRelevantCredentials(nodeType) ==
    IF nodeType = Str("telegram")
    THEN {c \in CredentialList : c.type \in {"telegram", "telegram_bot"}}
    ELSE IF nodeType = Str("llm") \/ nodeType = Str("langgraph")
    THEN {c \in CredentialList : c.type \in {"openai", "google_ai", "gemini"}}
    ELSE CredentialList

\* parseInt(value, 10) on a string given as its characters: an optional
\* sign, then the leading decimal digits; NaN when there is no digit.
Digits == <<"0", "1", "2", "3", "4", "5", "6", "7", "8", "9">>

IsDigit(c) == \E d \in 1..10 : Digits[d] = c

DigitValue(c) == (CHOOSE d \in 1..10 : Digits[d] = c) - 1

RECURSIVE LeadingDigits(_, _, _)
LeadingDigits(chars, i, acc) ==
    IF i > Len(chars) \/ ~IsDigit(chars[i]) THEN acc
    ELSE LeadingDigits(chars, i + 1, acc * 10 + DigitValue(chars[i]))

parseInt(chars) ==
    LET signed == Len(chars) >= 1 /\ chars[1] \in {"-", "+"}
        first == IF signed THEN 2 ELSE 1
        magnitude == LeadingDigits(chars, first, 0)
    IN  IF first > Len(chars) \/ ~IsDigit(chars[first]) THEN NaN
        ELSE IF signed /\ chars[1] = "-" THEN Num(0 - magnitude)
        ELSE Num(magnitude)

\* Variant: a shallow merge, the fields newData lacks keep their old value.
updateNodeDataMerges(nds, nodeId, newData) ==
    [i \in 1..Len(nds) |->
        IF nds[i].id = nodeId
        THEN [nds[i] EXCEPT !.data.inputs =
                 Obj([f \in Fields |->
                        IF newData[f] = Undef
                        THEN InputsOrEmpty(nds[i].data.inputs)[f]
                        ELSE newData[f]])]
        ELSE nds[i]]

updateNodeData(nds, nodeId, newData) ==
    [i \in 1..Len(nds) |->
        IF nds[i].id = nodeId
        THEN [nds[i] EXCEPT !.data.inputs = Obj(newData)]
        ELSE nds[i]]

\* A call updateNodeData(nodeId, newData), whoever makes it.
UpdateNodeData(nodeId, newData) ==
    /\ EditorShown
    /\ nodes' = updateNodeData(nodes, nodeId, newData)
    /\ last' = [Event("updateNodeData", nodeId, 0) EXCEPT !.inputs = Obj(newData)]
    /\ Quiet
    /\ UNCHANGED <<edges, selectedNode, formData, now, session>>

\* The text inputs the panel renders for a node type.
TextKeys(nodeType) ==
    IF nodeType = Str("telegram") THEN {"chat_id", "message_text"}
    ELSE IF nodeType = Str("llm") \/ nodeType = Str("langgraph")
    THEN {"model_name", "prompt"}
    ELSE {}

HasCredentialSelect(nodeType) == nodeType \in nodesRequiringCredentials

\* handleInputChange(key, value) with the processed value.
InputChange(key, processedValue) ==
    LET newData == With(formData, key, processedValue)
    IN  /\ formData' = newData
        /\ nodes' = updateNodeData(nodes, selectedNode.id, newData)
        /\ last' = [Event("handleInputChange", selectedNode.id, 0)
                        EXCEPT !.inputs = Obj(newData)]
        /\ Quiet
        /\ UNCHANGED <<edges, selectedNode, now, session>>

\* A keystroke in one of the text inputs.
HandleTextChange(key, text) ==
    /\ EditorShown
    /\ selectedNode.open
    /\ key \in TextKeys(selectedNode.nodeType)
    /\ InputChange(key, Str(text))

\* A choice in the credential selector: the item's value is String(credential.id).
HandleCredentialChange(credential) ==
    /\ EditorShown
    /\ selectedNode.open
    /\ HasCredentialSelect(selectedNode.nodeType)
    /\ credential \in getRelevantCredentials(selectedNode.nodeType)
    /\ InputChange("credentialId", parseInt(credential.id))

(***************************************************************************)
(* Saving: the validation of handleSave and the spec it builds.            *)
(***************************************************************************)
\* Variant: the last trigger node is taken instead of the first.
findLastStartNode(nds) ==
    LET hits == {i \in 1..Len(nds) : IsTriggerType(nds[i].data.nodeType)}
    IN  IF hits = {} THEN 0 ELSE CHOOSE i \in hits : \A j \in hits : i >= j

\* nodes.find(n => n.data.nodeType is a trigger): its index, 0 when none.
findStartNode(nds) ==
    LET hits == {i \in 1..Len(nds) : IsTriggerType(nds[i].data.nodeType)}
    IN  IF hits = {} THEN 0 ELSE CHOOSE i \in hits : \A j \in hits : i <= j

\* The TypeError a property read on undefined throws.
Thrown == [t |-> "throw", s |-> "", n |-> 0]

\* Variant: node.data.inputs.credentialId, without the optional chaining.
CredentialIdOfUnguarded(node) ==
    IF node.data.inputs.present THEN node.data.inputs.m["credentialId"] ELSE Thrown

\* node.data.inputs?.credentialId
CredentialIdOf(node) ==
    IF node.data.inputs.present THEN node.data.inputs.m["credentialId"] ELSE Undef

LacksCredential(node) ==
    /\ node.data.nodeType \in nodesRequiringCredentials
    /\ ~Truthy(CredentialIdOf(node))

\* The first node the credential loop stops at: its index, 0 when none.
findMissingCredential(nds) ==
    LET hits == {i \in 1..Len(nds) : LacksCredential(nds[i])}
    IN  IF hits = {} THEN 0 ELSE CHOOSE i \in hits : \A j \in hits : i <= j

MissingTrigger == [title |-> "Cannot save workflow", label |-> ""]
MissingCredential(label) == [title |-> "Incomplete Configuration", label |-> label]
SavedToast == [title |-> "Workflow saved!", label |-> ""]
SaveFailedToast == [title |-> "Failed to save workflow", label |-> ""]
LoadFailedToast == [title |-> "Error loading workflow", label |-> ""]

\* No toast at all: the handler ended with an exception nothing catches.
UncaughtTypeError == [title |-> "Uncaught TypeError", label |-> ""]

\* Variant: the credential loop runs before the trigger check.
ValidateCredentialsFirst(nds) ==
    IF findMissingCredential(nds) # 0
    THEN MissingCredential(nds[findMissingCredential(nds)].data.label)
    ELSE IF findStartNode(nds) = 0 THEN MissingTrigger
    ELSE NoToast

\* The toast validation raises, NoToast when the graph passes.
Validate(nds) ==
    IF findStartNode(nds) = 0 THEN MissingTrigger
    ELSE IF findMissingCredential(nds) = 0 THEN NoToast
    ELSE IF CredentialIdOf(nds[findMissingCredential(nds)]) = Thrown
    THEN UncaughtTypeError
    ELSE MissingCredential(nds[findMissingCredential(nds)].data.label)

\* Variant: the record keeps the canvas type instead of the node's type tag.
EncodeNodeKeepsType(node) == node

EncodeNode(node) == [node EXCEPT !.type = node.data.nodeType]

nodesForApi(nds) == [i \in 1..Len(nds) |-> EncodeNode(nds[i])]

workflowContent(nds, eds) ==
    [startNodeId |-> nds[findStartNode(nds)].id,
     nodes |-> nodesForApi(nds),
     edges |-> eds]

Request(content) ==
    [made |-> TRUE, startNodeId |-> content.startNodeId, nodes |-> content.nodes,
     edges |-> content.edges]

Content(content) ==
    [present |-> TRUE, startNodeId |-> content.startNodeId, nodes |-> content.nodes,
     edges |-> content.edges]

\* Variant: the Save button stays enabled while a save is pending.
SaveNeverDisabled == FALSE

\* disabled={isSaving} of the Save button, disabled={isExecuting} of Run.
SaveDisabled == isSaving

RunDisabled == isExecuting

\* The Save button, up to the await of workflowsApi.update.  The backend
\* either applies the update or rejects it; its reply arrives later.  The
\* document the backend holds is tracked (readBack) only in sessions that
\* load it again.
HandleSave(reply, readBack) ==
    /\ EditorShown
    /\ ~SaveDisabled
    /\ last' = Event("handleSave", NoId, 0)
    /\ toast' = Validate(nodes)
    /\ IF Validate(nodes) = NoToast
       THEN /\ isSaving' = TRUE
            /\ sent' = Request(workflowContent(nodes, edges))
            /\ saveReply' = reply
            /\ store' = IF reply = "ok" /\ readBack
                        THEN Content(workflowContent(nodes, edges))
                        ELSE store
       ELSE /\ sent' = NoRequest
            /\ UNCHANGED <<isSaving, saveReply, store>>
    /\ UNCHANGED <<nodes, edges, selectedNode, formData, workflow, isLoading, isExecuting,
                   page, now, loadPending, listRequests>>

\* Variant: a failed save also drops the selection and the unsaved edges.
SaveResolveRollsBack ==
    /\ page = "editor"
    /\ saveReply # "none"
    /\ toast' = IF saveReply = "ok" THEN SavedToast ELSE SaveFailedToast
    /\ isSaving' = FALSE
    /\ saveReply' = "none"
    /\ sent' = NoRequest
    /\ last' = Event("saveResolve", NoId, 0)
    /\ selectedNode' = IF saveReply = "ok" THEN selectedNode ELSE NoSelection
    /\ edges' = IF saveReply = "ok" THEN edges ELSE <<>>
    /\ UNCHANGED <<nodes, formData, workflow, isLoading, isExecuting, page, now, store,
                   loadPending, listRequests>>

\* Variant: setIsSaving(false) at the end of the try block instead of in
\* finally, so a rejected request leaves the flag set.
SaveResolveNoFinally ==
    /\ page = "editor"
    /\ saveReply # "none"
    /\ toast' = IF saveReply = "ok" THEN SavedToast ELSE SaveFailedToast
    /\ isSaving' = (saveReply # "ok")
    /\ saveReply' = "none"
    /\ sent' = NoRequest
    /\ last' = Event("saveResolve", NoId, 0)
    /\ UNCHANGED <<nodes, edges, selectedNode, formData, workflow, isLoading, isExecuting,
                   page, now, store, loadPending, listRequests>>

\* The reply of the update request: the toast, then finally setIsSaving(false).
SaveResolve ==
    /\ page = "editor"
    /\ saveReply # "none"
    /\ toast' = IF saveReply = "ok" THEN SavedToast ELSE SaveFailedToast
    /\ isSaving' = FALSE
    /\ saveReply' = "none"
    /\ sent' = NoRequest
    /\ last' = Event("saveResolve", NoId, 0)
    /\ UNCHANGED <<nodes, edges, selectedNode, formData, workflow, isLoading, isExecuting,
                   page, now, store, loadPending, listRequests>>

ExecutedToast == [title |-> "Workflow executed!", label |-> ""]
ExecuteFailedToast == [title |-> "Failed to execute workflow", label |-> ""]

\* The Run button, up to the await of workflowsApi.execute: the request is
\* issued for the stored workflow whatever the canvas holds.
HandleExecute ==
    /\ EditorShown
    /\ ~RunDisabled
    /\ isExecuting' = TRUE
    /\ last' = Event("handleExecute", NoId, 0)
    /\ Quiet
    /\ UNCHANGED <<nodes, edges, selectedNode, formData, workflow, isLoading, isSaving,
                   page, now, store, loadPending, saveReply, listRequests>>

\* The reply of the execute request: the toast, then finally
\* setIsExecuting(false).
ExecuteResolve(reply) ==
    /\ page = "editor"
    /\ isExecuting
    /\ toast' = IF reply = "ok" THEN ExecutedToast ELSE ExecuteFailedToast
    /\ isExecuting' = FALSE
    /\ sent' = NoRequest
    /\ last' = Event("executeResolve", NoId, 0)
    /\ UNCHANGED <<nodes, edges, selectedNode, formData, workflow, isLoading, isSaving,
                   page, now, store, loadPending, saveReply, listRequests>>

(***************************************************************************)
(* Loading: the node mapping of loadWorkflow.                              *)
(***************************************************************************)
\* Variant: a record without an inputs object gets {} and no type.
FixedInputsSkipsAbsent(node) ==
    LET inputs == InputsOrEmpty(node.data.inputs)
    IN  IF node.data.inputs.present /\ ~Truthy(inputs["type"])
        THEN With(inputs, "type", node.type)
        ELSE inputs

\* Variant: the repaired payload is built afresh, { type: node.type }.
FixedInputsFresh(node) ==
    LET inputs == InputsOrEmpty(node.data.inputs)
    IN  IF ~Truthy(inputs["type"]) THEN With(EmptyObj, "type", node.type) ELSE inputs

\* Lines 83-86: inputs = node.data.inputs || {}; a falsy inputs.type is set
\* to the record's outer type.
FixedInputs(node) ==
    LET inputs == InputsOrEmpty(node.data.inputs)
    IN  IF ~Truthy(inputs["type"]) THEN With(inputs, "type", node.type) ELSE inputs

\* The record with its repaired input payload.
Upgrade(node) == [node EXCEPT !.data.inputs = Obj(FixedInputs(node))]

\* Variant: data is rebuilt without spreading node.data, so the label is lost.
DecodeNodeDropsData(node) ==
    [node EXCEPT !.type = Str("default"),
                 !.data = [label |-> "", inputs |-> Obj(FixedInputs(node)),
                           nodeType |-> node.type]]

\* { ...node, type: 'default', data: { ...node.data, inputs, nodeType: node.type } }
DecodeNode(node) ==
    [node EXCEPT !.type = Str("default"),
                 !.data = [node.data EXCEPT !.inputs = Obj(FixedInputs(node)),
                                            !.nodeType = node.type]]

\* Variant: the records are mapped last to first.
nodesForCanvasReversed(records) ==
    [i \in 1..Len(records) |-> DecodeNode(records[Len(records) + 1 - i])]

nodesForCanvas(records) == [i \in 1..Len(records) |-> DecodeNode(records[i])]

\* The state of a freshly mounted editor page.
Mounted ==
    /\ nodes = <<>>
    /\ edges = <<>>
    /\ selectedNode = NoSelection
    /\ formData = EmptyObj
    /\ workflow = FALSE
    /\ isLoading = TRUE
    /\ isSaving = FALSE
    /\ isExecuting = FALSE
    /\ page = "editor"
    /\ loadPending = TRUE
    /\ saveReply = "none"
    /\ toast = NoToast
    /\ sent = NoRequest
    /\ last = Event("mount", NoId, 0)
    /\ listRequests = 0

\* workflowsApi.get resolved: setWorkflow, then the graph when the document
\* has content, finally setIsLoading(false).
LoadResolve ==
    /\ page = "editor"
    /\ loadPending
    /\ loadPending' = FALSE
    /\ workflow' = TRUE
    /\ IF store.present
       THEN /\ nodes' = nodesForCanvas(store.nodes)
            /\ edges' = store.edges
       ELSE UNCHANGED <<nodes, edges>>
    /\ isLoading' = FALSE
    /\ last' = Event("loadWorkflow", NoId, 0)
    /\ Quiet
    /\ UNCHANGED <<selectedNode, formData, isSaving, isExecuting, page, now, store,
                   saveReply, listRequests>>

\* workflowsApi.get rejected: the toast, navigate('/workflows'), finally
\* setIsLoading(false).
LoadReject ==
    /\ page = "editor"
    /\ loadPending
    /\ loadPending' = FALSE
    /\ toast' = LoadFailedToast
    /\ page' = "list"
    /\ isLoading' = FALSE
    /\ sent' = NoRequest
    /\ last' = Event("loadWorkflowFailed", NoId, 0)
    /\ UNCHANGED <<nodes, edges, selectedNode, formData, workflow, isSaving,
                   isExecuting, now, store, saveReply, listRequests>>

(***************************************************************************)
(* An editing session on a new workflow: the canvas, the sidebar and the   *)
(* text inputs of the panel.                                               *)
(***************************************************************************)
TextValues == {"hi"}

Init ==
    /\ Mounted
    /\ now = 0
    /\ store = NoContent

Next ==
    \/ LoadResolve
    \/ LoadReject
    \/ \E nodeType \in Types, ms \in Clock : HandleAddNode(nodeType, SidebarPosition, ms)
    \/ \E source \in NodeIds, target \in NodeIds : OnConnect(source, target)
    \/ \E i \in 1..MaxNodes, position \in Positions : MoveNode(i, position)
    \/ \E i \in 1..MaxNodes : OnNodeClick(i)
    \/ OnPaneClick
    \/ OnClose
    \/ \E nodeId \in NodeIds : HandleDeleteNode(nodeId)
    \/ \E text \in TextValues : HandleTextChange("chat_id", text)
    \/ \E text \in TextValues : HandleTextChange("prompt", text)

Spec == Init /\ [][Next]_vars

(***************************************************************************)
(* A session that fills in credentials and saves.                          *)
(***************************************************************************)
NextSave ==
    \/ LoadResolve
    \/ \E nodeType \in Types, ms \in Clock : HandleAddNode(nodeType, SidebarPosition, ms)
    \/ \E source \in NodeIds, target \in NodeIds : OnConnect(source, target)
    \/ \E i \in 1..MaxNodes : OnNodeClick(i)
    \/ OnClose
    \/ \E nodeId \in NodeIds : HandleDeleteNode(nodeId)
    \/ \E credential \in CredentialList : HandleCredentialChange(credential)
    \/ \E reply \in {"ok", "error"} : HandleSave(reply, FALSE)
    \/ SaveResolve

SpecSave == Init /\ [][NextSave]_vars

(***************************************************************************)
(* A session that edits the canvas while it saves and runs the workflow.   *)
(***************************************************************************)
RunTypes == {"manual_trigger", "telegram"}

NextRun ==
    \/ LoadResolve
    \/ \E nodeType \in RunTypes, ms \in Clock : HandleAddNode(nodeType, SidebarPosition, ms)
    \/ \E source \in NodeIds, target \in NodeIds : OnConnect(source, target)
    \/ \E i \in 1..MaxNodes, position \in Positions : MoveNode(i, position)
    \/ \E i \in 1..MaxNodes : OnNodeClick(i)
    \/ \E nodeId \in NodeIds : HandleDeleteNode(nodeId)
    \/ \E text \in TextValues : HandleTextChange("chat_id", text)
    \/ \E reply \in {"ok", "error"} : HandleSave(reply, FALSE)
    \/ SaveResolve
    \/ HandleExecute
    \/ \E reply \in {"ok", "error"} : ExecuteResolve(reply)

SpecRun == Init /\ [][NextRun]_vars

(***************************************************************************)
(* handleSave as a function of the graph it finds: every graph of canvas   *)
(* nodes, those whose data has no inputs object included (the case the     *)
(* optional chaining of the credential loop is there for).                 *)
(***************************************************************************)
CanvasInputs(nodeType) ==
    {NoInputs,
     Obj(getDefaultInputs(nodeType)),
     Obj(With(getDefaultInputs(nodeType), "credentialId", Num(5)))}

CanvasChoices ==
    UNION {{[nodeType |-> ty, inputs |-> inputs] : inputs \in CanvasInputs(ty)} :
             ty \in Types}

CanvasNode(k, choice) ==
    [NewNode(choice.nodeType, SidebarPosition, k) EXCEPT !.data.inputs = choice.inputs]

CanvasGraphs ==
    UNION {{[i \in 1..n |-> CanvasNode(i, f[i])] : f \in [1..n -> CanvasChoices]} :
             n \in 0..MaxNodes}

CanvasEdges(nds) ==
    {<<>>} \cup
    IF Len(nds) < 2 THEN {}
    ELSE {<<[id |-> getEdgeId(nds[1].id, nds[2].id),
             source |-> nds[1].id, target |-> nds[2].id]>>}

InitValidate ==
    /\ nodes \in CanvasGraphs
    /\ edges \in CanvasEdges(nodes)
    /\ selectedNode = NoSelection
    /\ formData = EmptyObj
    /\ workflow = TRUE
    /\ isLoading = FALSE
    /\ isSaving = FALSE
    /\ isExecuting = FALSE
    /\ page = "editor"
    /\ loadPending = FALSE
    /\ saveReply = "none"
    /\ toast = NoToast
    /\ sent = NoRequest
    /\ last = Event("loadWorkflow", NoId, 0)
    /\ listRequests = 0
    /\ now = 0
    /\ store = NoContent

NextValidate ==
    \/ \E i \in 1..MaxNodes : OnNodeClick(i)
    \/ OnPaneClick
    \/ \E reply \in {"ok", "error"} : HandleSave(reply, FALSE)
    \/ SaveResolve

SpecValidate == InitValidate /\ [][NextValidate]_vars

(***************************************************************************)
(* updateNodeData as a function of its arguments: any id, one that no node *)
(* has included, and payloads that lack fields the node's payload has.     *)
(***************************************************************************)
UpdatePayloads ==
    {With(EmptyObj, "prompt", Str("hi")),
     With(getDefaultInputs("telegram"), "credentialId", Num(5))}

UpdateIds == NodeIds \cup {NodeId("telegram", 0)}

NextUpdate ==
    \E nodeId \in UpdateIds, newData \in UpdatePayloads : UpdateNodeData(nodeId, newData)

SpecUpdate == InitValidate /\ [][NextUpdate]_vars

(***************************************************************************)
(* onConnect as a function of the connection it is given: the endpoints    *)
(* may be ids of nodes of the graph or an id that no node has.             *)
(***************************************************************************)
ConnectIds == NodeIds \cup {NodeId("ghost", 0)}

NextConnect ==
    \/ LoadResolve
    \/ \E nodeType \in RunTypes, ms \in Clock : HandleAddNode(nodeType, SidebarPosition, ms)
    \/ \E i \in 1..MaxNodes : OnNodeClick(i)
    \/ \E nodeId \in NodeIds : HandleDeleteNode(nodeId)
    \/ \E source \in ConnectIds, target \in ConnectIds : OnConnect(source, target)

SpecConnect == Init /\ [][NextConnect]_vars

(***************************************************************************)
(* handleAddNode as a function of its arguments: any type tag, one outside *)
(* the sidebar's list included, and any position.                          *)
(***************************************************************************)
AddTypes == Types \cup {"email"}

NextAdd ==
    \/ LoadResolve
    \/ \E nodeType \in AddTypes, position \in Positions, ms \in Clock :
          HandleAddNode(nodeType, position, ms)
    \/ \E i \in 1..MaxNodes : OnNodeClick(i)
    \/ \E source \in NodeIds, target \in NodeIds : OnConnect(source, target)

SpecAdd == Init /\ [][NextAdd]_vars

(***************************************************************************)
(* An editing session in which the canvas also handles the delete key.     *)
(***************************************************************************)
NextKeys ==
    \/ LoadResolve
    \/ \E nodeType \in RunTypes, ms \in Clock : HandleAddNode(nodeType, SidebarPosition, ms)
    \/ \E source \in NodeIds, target \in NodeIds : OnConnect(source, target)
    \/ \E i \in 1..MaxNodes, position \in Positions : MoveNode(i, position)
    \/ \E i \in 1..MaxNodes : OnNodeClick(i)
    \/ OnPaneClick
    \/ OnClose
    \/ HandleDeleteNode(selectedNode.id)
    \/ OnNodesDelete
    \/ \E text \in TextValues : HandleTextChange("chat_id", text)

SpecKeys == Init /\ [][NextKeys]_vars

(***************************************************************************)
(* Sessions on persisted documents: load, save, leave, open again.         *)
(***************************************************************************)
\* Outer type tags and input payloads of persisted node records, those of
\* documents saved before inputs carried a type included.
RecordTypes == {Str("manual_trigger"), Str("telegram"), Str("llm"), Str(""), Undef}

RecordInputs ==
    {NoInputs} \cup
    { Obj([EmptyObj EXCEPT !["type"] = ty, !["credentialId"] = c, !["chat_id"] = ch]) :
        ty \in {Undef, Str(""), Str("telegram"), Str("llm")},
        c \in {Undef, Num(5)},
        ch \in {Undef, Str("hi")} }

Record(k, outerType, inputs) ==
    [id |-> NodeId("node", k),
     type |-> outerType,
     position |-> SidebarPosition,
     data |-> [label |-> "Step", nodeType |-> Undef, inputs |-> inputs]]

Records(k) == {Record(k, ty, inputs) : ty \in RecordTypes, inputs \in RecordInputs}

RecordEdge == [id |-> getEdgeId(NodeId("node", 1), NodeId("node", 2)),
               source |-> NodeId("node", 1), target |-> NodeId("node", 2)]

Document(records, eds) ==
    [present |-> TRUE, startNodeId |-> records[1].id, nodes |-> records, edges |-> eds]

PersistedDocs ==
    {NoContent}
    \cup {Document(<<r>>, <<>>) : r \in Records(1)}
    \cup {Document(<<r1, r2>>, eds) :
            r1 \in Records(1), r2 \in Records(2), eds \in {<<>>, <<RecordEdge>>}}

InitLoad ==
    /\ Mounted
    /\ now = 0
    /\ store \in PersistedDocs

\* The Back button: navigate('/workflows') unmounts the page.
Back ==
    /\ EditorShown
    /\ page' = "list"
    /\ saveReply' = "none"
    /\ loadPending' = FALSE
    /\ last' = Event("navigate", NoId, 0)
    /\ Quiet
    /\ UNCHANGED <<nodes, edges, selectedNode, formData, workflow, isLoading, isSaving,
                   isExecuting, now, store, listRequests>>

\* Opening the workflow from the list mounts a fresh page, which loads.
Open ==
    /\ page = "list"
    /\ nodes' = <<>>
    /\ edges' = <<>>
    /\ selectedNode' = NoSelection
    /\ formData' = EmptyObj
    /\ workflow' = FALSE
    /\ isLoading' = TRUE
    /\ isSaving' = FALSE
    /\ isExecuting' = FALSE
    /\ page' = "editor"
    /\ loadPending' = TRUE
    /\ saveReply' = "none"
    /\ last' = Event("mount", NoId, 0)
    /\ listRequests' = 0
    /\ Quiet
    /\ UNCHANGED <<now, store>>

NextLoad ==
    \/ LoadResolve
    \/ LoadReject
    \/ \E nodeType \in Types, ms \in Clock : HandleAddNode(nodeType, SidebarPosition, ms)
    \/ \E reply \in {"ok", "error"} : HandleSave(reply, TRUE)
    \/ SaveResolve
    \/ Back
    \/ Open

SpecLoad == InitLoad /\ [][NextLoad]_vars

(***************************************************************************)
(* Requests that settle: every continuation after an await runs once the   *)
(* promise it waits for settles, so the three reply steps are weakly fair. *)
(* Nothing bounds the time a request takes; a request that never settles   *)
(* is outside this specification.                                          *)
(***************************************************************************)
NextLive ==
    \/ LoadResolve
    \/ LoadReject
    \/ \E nodeType \in RunTypes, ms \in Clock : HandleAddNode(nodeType, SidebarPosition, ms)
    \/ \E reply \in {"ok", "error"} : HandleSave(reply, FALSE)
    \/ SaveResolve
    \/ HandleExecute
    \/ \E reply \in {"ok", "error"} : ExecuteResolve(reply)
    \/ Back
    \/ Open

SpecLive ==
    /\ Init
    /\ [][NextLive]_vars
    /\ WF_vars(LoadResolve \/ LoadReject)
    /\ WF_vars(SaveResolve)
    /\ WF_vars(\E reply \in {"ok", "error"} : ExecuteResolve(reply))

(***************************************************************************)
(* Properties.                                                             *)
(***************************************************************************)
\* The indices of seq that satisfy Keep(_), and the sequence they leave
\* behind, stated position by position.
IsWhatIsLeft(after, seq, Keep(_)) ==
    LET kept == {i \in 1..Len(seq) : Keep(seq[i])}
    IN  /\ Len(after) = Cardinality(kept)
        /\ \A i \in kept : after[Cardinality({j \in kept : j <= i})] = seq[i]

\* C1: in every state reached from the empty graph by adding, connecting,
\* editing, moving and deleting nodes, both endpoints of every edge are ids
\* of nodes in the node list.
C1_NoDanglingEdge ==
    \A k \in 1..Len(edges) :
        /\ \E i \in 1..Len(nodes) : nodes[i].id = edges[k].source
        /\ \E i \in 1..Len(nodes) : nodes[i].id = edges[k].target

\* A node was deleted, it took an edge with it, and an edge is still there.
C1_Witness ==
    /\ last.op = "handleDeleteNode"
    /\ last.removed >= 1
    /\ Len(edges) >= 1

C3_DecodeEncode ==
    sent.made =>
        /\ nodesForCanvas(sent.nodes) = nodes
        /\ sent.edges = edges

\* A saved graph of two nodes and an edge, one of them with a credential.
C3_Witness ==
    /\ sent.made
    /\ Len(nodes) = 2
    /\ Len(edges) = 1
    /\ \E i \in 1..Len(nodes) :
          /\ nodes[i].data.nodeType \in nodesRequiringCredentials
          /\ nodes[i].position = SidebarPosition

\* C4: a spec s that handleSave sent, decoded by loadWorkflow and encoded
\* again by handleSave, is s: same startNodeId, node records and edges.
C4_EncodeDecode ==
    sent.made =>
        LET decoded == nodesForCanvas(sent.nodes)
        IN  /\ Validate(decoded) = NoToast
            /\ findStartNode(decoded) # 0
            /\ decoded[findStartNode(decoded)].id = sent.startNodeId
            /\ nodesForApi(decoded) = sent.nodes

\* A sent spec of two records whose second one is the start node.
C4_Witness ==
    /\ sent.made
    /\ Len(sent.nodes) = 2
    /\ sent.startNodeId = sent.nodes[2].id
    /\ sent.edges # <<>>

\* The persisted record i with the input payload the load gave node i.
MigratedRecord(i) == [store.nodes[i] EXCEPT !.data.inputs = nodes[i].data.inputs]

JustLoaded == last.op = "loadWorkflow" /\ store.present

\* C5: the input repair of the load is idempotent: applied to a record that
\* already went through it, it changes nothing.
C5_UpgradeIdempotent ==
    JustLoaded =>
        \A i \in 1..Len(nodes) : Upgrade(MigratedRecord(i)) = MigratedRecord(i)

\* A loaded record that had no inputs object, and one with an empty type.
C5_Witness ==
    /\ JustLoaded
    /\ Len(nodes) = 2
    /\ ~store.nodes[1].data.inputs.present
    /\ store.nodes[2].type = Str("")
    /\ store.nodes[2].data.inputs.present

LacksTypeField(record) ==
    ~record.data.inputs.present \/ record.data.inputs.m["type"] = Undef

\* C6: a record whose input payload has no type field is loaded with
\* inputs.type equal to its outer type and every other field as persisted.
C6_LegacyRepair ==
    JustLoaded =>
        \A i \in 1..Len(nodes) :
            LacksTypeField(store.nodes[i]) =>
                /\ nodes[i].data.inputs.present
                /\ nodes[i].data.inputs.m["type"] = store.nodes[i].type
                /\ \A f \in Fields \ {"type"} :
                      nodes[i].data.inputs.m[f] = InputsOrEmpty(store.nodes[i].data.inputs)[f]

\* A legacy telegram record with a credential and a chat id, loaded.
C6_Witness ==
    /\ JustLoaded
    /\ \E i \in 1..Len(nodes) :
          /\ store.nodes[i].type = Str("telegram")
          /\ store.nodes[i].data.inputs.present
          /\ store.nodes[i].data.inputs.m["type"] = Undef
          /\ store.nodes[i].data.inputs.m["credentialId"] = Num(5)
          /\ store.nodes[i].data.inputs.m["chat_id"] = Str("hi")

\* C7: after a load, inputs.type of every node that has a type tag equals
\* that tag, also when the persisted inputs.type differs from the outer type.
C7_TypeAgreesAfterLoad ==
    JustLoaded =>
        \A i \in 1..Len(nodes) :
            Truthy(nodes[i].data.nodeType) =>
                nodes[i].data.inputs.m["type"] = nodes[i].data.nodeType

NoTrigger(nds) ==
    \A i \in 1..Len(nds) :
        nds[i].data.nodeType \notin {Str("manual_trigger"), Str("webhook_trigger")}

JustSaved == last.op = "handleSave"

\* C8: handleSave on a graph without a trigger node raises the missing
\* trigger notification, and only it, and sends nothing.
C8_MissingTriggerFirst ==
    (JustSaved /\ NoTrigger(nodes)) =>
        /\ toast = MissingTrigger
        /\ ~sent.made
        /\ ~isSaving

\* A rejected save of a graph with no trigger and an unconfigured telegram node.
C8_Witness ==
    /\ JustSaved
    /\ NoTrigger(nodes)
    /\ \E i \in 1..Len(nodes) :
          /\ nodes[i].data.nodeType = Str("telegram")
          /\ nodes[i].data.inputs.m["credentialId"] = Str("")

EmptyOrAbsentCredential(node) ==
    \/ ~node.data.inputs.present
    \/ node.data.inputs.m["credentialId"] \in {Undef, Str("")}

NeedsCredential(node) ==
    node.data.nodeType \in {Str("telegram"), Str("llm"), Str("langgraph")}

Unconfigured(nds) ==
    {i \in 1..Len(nds) : NeedsCredential(nds[i]) /\ EmptyOrAbsentCredential(nds[i])}

\* C9: handleSave on a graph with a trigger is rejected for a missing
\* credential exactly when a telegram, llm or langgraph node has an empty or
\* absent credentialId; the notification names the first such node and no
\* request is sent.
C9_MissingCredentialIff ==
    (JustSaved /\ ~NoTrigger(nodes)) =>
        /\ (toast.title = "Incomplete Configuration") <=> (Unconfigured(nodes) # {})
        /\ (toast.title = "Incomplete Configuration") =>
              /\ ~sent.made
              /\ \E i \in Unconfigured(nodes) :
                    /\ \A j \in Unconfigured(nodes) : i <= j
                    /\ toast.label = nodes[i].data.label

DistinctIds(records) ==
    \A i, j \in 1..Len(records) : records[i].id = records[j].id => i = j

\* C10: every spec handleSave sends has exactly one trigger record (stated
\* for specs whose node ids are pairwise distinct).
C10_ExactlyOneTrigger ==
    (sent.made /\ DistinctIds(sent.nodes)) =>
        Cardinality({i \in 1..Len(sent.nodes) :
                        sent.nodes[i].type \in {Str("manual_trigger"),
                                                Str("webhook_trigger")}}) = 1

TriggerRecords(records) ==
    {i \in 1..Len(records) :
        records[i].type \in {Str("manual_trigger"), Str("webhook_trigger")}}

\* One manual_trigger node, one telegram node with a credentialId that is
\* neither empty nor absent, and one edge between the two.
ScenarioC(nds, eds) ==
    /\ Len(nds) = 2
    /\ Len(eds) = 1
    /\ \E i, j \in 1..Len(nds) :
          /\ nds[i].data.nodeType = Str("manual_trigger")
          /\ nds[j].data.nodeType = Str("telegram")
          /\ ~EmptyOrAbsentCredential(nds[j])
          /\ {eds[1].source, eds[1].target} = {nds[i].id, nds[j].id}
          /\ nds[i].id # nds[j].id

\* C11: in every spec handleSave sends, startNodeId is the id of the first
\* record (in node order) whose type is a trigger type, and such a record
\* exists; the spec sent for a graph of one manual_trigger node, one telegram
\* node with a credential and one edge between them has the trigger's id as
\* startNodeId, two node records and one edge record.
C11_StartNode ==
    sent.made =>
        /\ TriggerRecords(sent.nodes) # {}
        /\ \E i \in TriggerRecords(sent.nodes) :
              /\ \A j \in TriggerRecords(sent.nodes) : i <= j
              /\ sent.startNodeId = sent.nodes[i].id
        /\ ScenarioC(nodes, edges) =>
              /\ \E i \in 1..Len(nodes) :
                    /\ nodes[i].data.nodeType = Str("manual_trigger")
                    /\ sent.startNodeId = nodes[i].id
              /\ Len(sent.nodes) = 2
              /\ Len(sent.edges) = 1

\* The spec of scenario C was sent, the telegram node added before the trigger.
C11_Witness ==
    /\ sent.made
    /\ ScenarioC(nodes, edges)
    /\ nodes[1].data.nodeType = Str("telegram")

\* C12: an execute request is issued only for a graph that validation
\* accepts: it has a trigger node and no telegram, llm or langgraph node whose
\* credentialId is empty or absent.
C12_ExecuteValidated ==
    last.op = "handleExecute" =>
        /\ ~NoTrigger(nodes)
        /\ Unconfigured(nodes) = {}

\* C13: the step that handles a failed update request leaves nodes, edges
\* and the selection as they are at that moment; it only raises the failure
\* notification and clears isSaving.
C13_FailedSaveFrame ==
    [][(last'.op = "saveResolve" /\ saveReply = "error") =>
          /\ nodes' = nodes
          /\ edges' = edges
          /\ selectedNode' = selectedNode
          /\ formData' = formData
          /\ toast' = SaveFailedToast
          /\ ~isSaving'
          /\ UNCHANGED <<workflow, isLoading, isExecuting, page>>]_vars

\* A failed save was handled while the panel is open on a graph with an edge.
C13_Witness ==
    /\ last.op = "saveResolve"
    /\ toast = SaveFailedToast
    /\ ~isSaving
    /\ selectedNode.open
    /\ Len(nodes) = 2
    /\ Len(edges) >= 1

ValidationToasts(nds) ==
    {MissingTrigger} \cup {MissingCredential(nds[i].data.label) : i \in 1..Len(nds)}

\* C14: a handleSave step that validation rejects ends with one of the two
\* validation notifications (never with an exception), sends no update
\* request, leaves isSaving false and leaves nodes, edges and the selection
\* as they were, also for graphs with nodes that have no inputs object.
C14_RejectedSaveFrame ==
    [][(last'.op = "handleSave" /\ ~sent'.made) =>
          /\ toast' \in ValidationToasts(nodes)
          /\ ~isSaving'
          /\ saveReply' = "none"
          /\ nodes' = nodes
          /\ edges' = edges
          /\ selectedNode' = selectedNode
          /\ formData' = formData
          /\ UNCHANGED <<workflow, isLoading, isExecuting, page>>]_vars

\* A rejected save of a graph with a trigger and a telegram node that has no
\* inputs object, while the panel is open.
C14_Witness ==
    /\ last.op = "handleSave"
    /\ ~sent.made
    /\ selectedNode.open
    /\ Len(edges) = 1
    /\ \E i, j \in 1..Len(nodes) :
          /\ nodes[i].data.nodeType = Str("manual_trigger")
          /\ nodes[j].data.nodeType = Str("telegram")
          /\ ~nodes[j].data.inputs.present

\* C15: an update request is issued only when no update request is in
\* flight, and isSaving is true for as long as one is in flight.
C15_OneSaveInFlight ==
    [][/\ sent'.made => (saveReply = "none" /\ ~isSaving)
       /\ (saveReply' # "none") => isSaving']_vars

\* A save is in flight and the editor keeps handling events.
C15_Witness ==
    /\ isSaving
    /\ saveReply = "error"
    /\ last.op = "handleAddNode"
    /\ Validate(nodes) = NoToast

RequestPending == isLoading \/ saveReply # "none" \/ isExecuting

GraphEdits ==
    {"handleAddNode", "onConnect", "handleInputChange", "onNodesChange",
     "handleDeleteNode"}

\* C16: while a load, save or execute request is pending, no step of
\* handleAddNode, onConnect, updateNodeData, a node move or handleDeleteNode
\* changes nodes or edges.
C16_NoEditWhilePending ==
    [][(RequestPending /\ last'.op \in GraphEdits) =>
          (nodes' = nodes /\ edges' = edges)]_vars

\* C17: a save request and an execute request are never in flight together
\* (Run cannot start while a save is pending, nor Save while a run is).
C17_SaveRunExclusive ==
    ~(saveReply # "none" /\ isSaving /\ isExecuting)

C19_UpdateNodeDataFrame ==
    [][last'.op = "updateNodeData" =>
          /\ Len(nodes') = Len(nodes)
          /\ \A i \in 1..Len(nodes) :
                IF nodes[i].id = last'.id
                THEN /\ nodes'[i].data.inputs = last'.inputs
                     /\ nodes'[i].id = nodes[i].id
                     /\ nodes'[i].type = nodes[i].type
                     /\ nodes'[i].position = nodes[i].position
                     /\ nodes'[i].data.label = nodes[i].data.label
                     /\ nodes'[i].data.nodeType = nodes[i].data.nodeType
                ELSE nodes'[i] = nodes[i]
          /\ edges' = edges]_vars

\* A telegram node was given a payload that holds a prompt and nothing else;
\* the other node and the edge are there.
C19_Witness ==
    /\ last.op = "updateNodeData"
    /\ last.inputs = Obj(With(EmptyObj, "prompt", Str("hi")))
    /\ Len(nodes) = 2
    /\ Len(edges) = 1
    /\ nodes[2].id = last.id
    /\ nodes[2].data.nodeType = Str("telegram")
    /\ nodes[2].data.inputs = last.inputs
    /\ nodes[1].data.inputs.present
    /\ nodes[1].data.inputs.m["credentialId"] = Num(5)

\* C20: onConnect adds no edge whose source or target is not the id of a node
\* of the graph.
C20_ConnectKnownNodes ==
    [][(last'.op = "onConnect" /\ edges' # edges) =>
          /\ edges'[Len(edges')].source \in NodeIds
          /\ edges'[Len(edges')].target \in NodeIds]_vars

\* C21: in every state of the editor no two nodes of the node list have the
\* same id, also after two handleAddNode calls for one node type that read
\* the same Date.now() value.
C21_NodeIdsDistinct ==
    \A i \in 1..Len(nodes) : \A j \in 1..Len(nodes) :
        i # j => nodes[i].id # nodes[j].id

KnownTypeTags == {"manual_trigger", "webhook_trigger", "telegram", "llm", "langgraph"}

\* C22: handleAddNode with a type tag outside the five known tags adds no
\* node to the graph.
C22_UnknownTypeRejected ==
    [][(last'.op = "handleAddNode" /\ last'.id[1] \notin KnownTypeTags) =>
          nodes' = nodes]_vars

\* The labels and the default input fields of the five node types, as the
\* node type catalogue lists them.
RegistryLabel ==
    [manual_trigger |-> "Manual Trigger", webhook_trigger |-> "Webhook Trigger",
     telegram |-> "Telegram Message", llm |-> "LLM Prompt",
     langgraph |-> "LangGraph Agent"]

RegistryDefaults(t) ==
    [f \in Fields |->
        IF f = "type" THEN Str(t)
        ELSE IF t \in {"telegram", "llm", "langgraph"} /\ f = "credentialId" THEN Str("")
        ELSE IF t = "telegram" /\ f \in {"chat_id", "message_text"} THEN Str("")
        ELSE IF t \in {"llm", "langgraph"} /\ f = "prompt" THEN Str("")
        ELSE IF t \in {"llm", "langgraph"} /\ f = "model_name"
        THEN Str("gemini-1.5-flash")
        ELSE Undef]

\* C23: a step handleAddNode(t, p) with t one of the five known tags appends
\* one node at the end of the node list, with position p, the label of t,
\* the type tag t and the default inputs of t (their type field is t); the
\* nodes already there, the edges and the selection stay as they were.
C23_AddNodeFrame ==
    [][(last'.op = "handleAddNode" /\ last'.id[1] \in KnownTypeTags) =>
          /\ Len(nodes') = Len(nodes) + 1
          /\ \A i \in 1..Len(nodes) : nodes'[i] = nodes[i]
          /\ LET node == nodes'[Len(nodes')]
                 t == last'.id[1]
             IN  /\ node.id = last'.id
                 /\ node.position = last'.position
                 /\ node.data.label = RegistryLabel[t]
                 /\ node.data.nodeType = Str(t)
                 /\ node.data.inputs = Obj(RegistryDefaults(t))
                 /\ node.data.inputs.m["type"] = Str(t)
          /\ edges' = edges
          /\ selectedNode' = selectedNode]_vars

\* An llm node was added away from the sidebar position, after another node,
\* while the panel is open and the graph has an edge.
C23_Witness ==
    /\ last.op = "handleAddNode"
    /\ last.position = [x |-> 0, y |-> 0]
    /\ Len(nodes) = 2
    /\ nodes[2].id = last.id
    /\ nodes[2].data.nodeType = Str("llm")
    /\ nodes[2].position = [x |-> 0, y |-> 0]
    /\ Len(edges) = 1
    /\ selectedNode.open

\* The fields in which two payloads differ.
Differing(a, b) == {f \in Fields : a[f] # b[f]}

\* C24: a field change in the open panel calls updateNodeData with the id of
\* the selected node and a payload that is the current payload of that node
\* in the graph with one field replaced, and it changes the inputs of no
\* node but the selected one (so no edit is lost and no value of one node
\* lands in another).
C24_LiveEdit ==
    [][last'.op = "handleInputChange" =>
          /\ selectedNode.open
          /\ last'.id = selectedNode.id
          /\ \E i \in 1..Len(nodes) : nodes[i].id = selectedNode.id
          /\ \A i \in 1..Len(nodes) :
                nodes[i].id = selectedNode.id =>
                    /\ Cardinality(Differing(last'.inputs.m,
                                              InputsOrEmpty(nodes[i].data.inputs))) <= 1
                    /\ nodes'[i].data.inputs = last'.inputs
          /\ Len(nodes') = Len(nodes)
          /\ Cardinality({i \in 1..Len(nodes) : nodes'[i] # nodes[i]}) <= 1]_vars

\* The same statement for graphs whose node ids are pairwise distinct.
C24_LiveEditDistinctIds ==
    [][(last'.op = "handleInputChange" /\ DistinctIds(nodes)) =>
          /\ selectedNode.open
          /\ last'.id = selectedNode.id
          /\ \E i \in 1..Len(nodes) : nodes[i].id = selectedNode.id
          /\ \A i \in 1..Len(nodes) :
                nodes[i].id = selectedNode.id =>
                    /\ Cardinality(Differing(last'.inputs.m,
                                              InputsOrEmpty(nodes[i].data.inputs))) <= 1
                    /\ nodes'[i].data.inputs = last'.inputs
          /\ Len(nodes') = Len(nodes)
          /\ Cardinality({i \in 1..Len(nodes) : nodes'[i] # nodes[i]}) <= 1]_vars

\* C25: since the page mounted, credentialsApi.list was requested at most
\* once, however often the panel was opened, closed and opened again.
C25_CredentialsListedOnce ==
    listRequests <= 1

\* C26: right after a load, a document without content leaves the editor
\* with no nodes, no edges and no selection; a document with content gives
\* one node per record, in the order of the records (same id, label and
\* position at each place), and the edges exactly as stored.
C26_LoadedGraph ==
    last.op = "loadWorkflow" =>
        IF ~store.present
        THEN /\ nodes = <<>>
             /\ edges = <<>>
             /\ ~selectedNode.open
        ELSE /\ Len(nodes) = Len(store.nodes)
             /\ \A i \in 1..Len(nodes) :
                   /\ nodes[i].id = store.nodes[i].id
                   /\ nodes[i].position = store.nodes[i].position
                   /\ nodes[i].data.label = store.nodes[i].data.label
                   /\ nodes[i].data.nodeType = store.nodes[i].type
             /\ edges = store.edges

\* A document of two records of different types and an edge was loaded.
C26_Witness ==
    /\ last.op = "loadWorkflow"
    /\ store.present
    /\ Len(store.nodes) = 2
    /\ store.nodes[1].type = Str("manual_trigger")
    /\ store.nodes[2].type = Str("telegram")
    /\ Len(store.edges) = 1
    /\ Len(nodes) = 2

\* C27: whenever the panel is open, a node with the selected id is in the
\* node list.
C27_SelectionPresent ==
    selectedNode.open => \E i \in 1..Len(nodes) : nodes[i].id = selectedNode.id

\* C28: every node of one of the five known types carries its type tag in
\* the field type of its inputs, in every state, whatever fields the panel
\* has edited on it or on other nodes.
C28_TypeFieldKept ==
    \A i \in 1..Len(nodes) :
        nodes[i].data.nodeType \in {Str(t) : t \in KnownTypeTags} =>
            /\ nodes[i].data.inputs.present
            /\ nodes[i].data.inputs.m["type"] = nodes[i].data.nodeType

\* A panel edit has just replaced the inputs of a node next to another node.
C28_Witness ==
    /\ last.op = "handleInputChange"
    /\ Len(nodes) = 2
    /\ \E i \in 1..Len(nodes) :
          /\ nodes[i].id = last.id
          /\ nodes[i].data.inputs = last.inputs
          /\ nodes[i].data.inputs.m["credentialId"] # Str("")
          /\ nodes[i].data.inputs.m["type"] = nodes[i].data.nodeType

\* The node holds the value the selector stored for one of the credentials it
\* offers for the node's type.
PickedCredential(node) ==
    /\ node.data.inputs.present
    /\ \E c \in getRelevantCredentials(node.data.nodeType) :
          node.data.inputs.m["credentialId"] = parseInt(c.id)

\* C29: a save of a graph with a trigger never stops at a telegram, llm or
\* langgraph node whose credentialId was picked in the selector, whatever id
\* the picked credential has (0 and ids that are not decimal integers
\* included).
C29_PickedCredentialPasses ==
    (JustSaved /\ ~NoTrigger(nodes)) =>
        \A i \in 1..Len(nodes) :
            (NeedsCredential(nodes[i]) /\ PickedCredential(nodes[i])) =>
                findMissingCredential(nodes) # i

\* C30: under settling requests each busy flag that is set is cleared again
\* (or the page is left), whether the request succeeded or failed, and right
\* after a failed load the graph is empty, the page is the workflow list and
\* isLoading is false.
C30_BusyFlagsReleased ==
    /\ isLoading ~> ~isLoading
    /\ isSaving ~> (~isSaving \/ page = "list")
    /\ isExecuting ~> (~isExecuting \/ page = "list")
    /\ [](last.op = "loadWorkflowFailed" =>
            /\ nodes = <<>>
            /\ edges = <<>>
            /\ page = "list"
            /\ ~isLoading)

\* A rejected execute request has just cleared isExecuting on a graph of two
\* nodes, with no save in flight.
C30_Witness ==
    /\ last.op = "executeResolve"
    /\ toast = ExecuteFailedToast
    /\ ~isExecuting
    /\ ~isSaving
    /\ page = "editor"
    /\ Len(nodes) = 2

====
